---- MODULE Spec2Model ----
(***************************************************************************)
(* Model of the maidenhead crate (src/src/lib.rs): grid_to_longlat,        *)
(* longlat_to_grid, grid_dist_bearing, grid_distance and grid_bearing.     *)
(*                                                                         *)
(* Representation.                                                         *)
(*  - A string is a sequence of Unicode code points (65 = 'A', 48 = '0',   *)
(*    97 = 'a', 233 = U+00E9, 129335 = U+1F937).  str::len() is the UTF-8  *)
(*    byte length and is modelled by StrLen.                               *)
(*  - An angle is an exact multiple of 1/4 of the finest latitude width    *)
(*    (0.625" / 4), so every width of the resolution table, every half     *)
(*    width and both origin offsets are integers, and each cell of the     *)
(*    finest tier holds points on both sides of its centre.  The           *)
(*    arithmetic is exact, not IEEE-754.                                   *)
(*  - The great-circle distance is represented by whether it is 0.0; the   *)
(*    bearing by the arguments the bearing formula is applied to.          *)
(***************************************************************************)
EXTENDS Integers, Sequences, FiniteSets

VARIABLES call, result, pc

vars == <<call, result, pc>>

Min(a, b) == IF a <= b THEN a ELSE b

(* ---------------- resolution table (lib.rs 39-54) ---------------------- *)

\* Units per degree: 3600 arc seconds of 32/5 units each.
Degree == (60 * 60 * 32) \div 5

LONG_OFFSET == 180 * Degree
LAT_OFFSET == 90 * Degree

LONG_F == 20 * Degree
LAT_F == 10 * Degree
LONG_SQ == 2 * Degree
LAT_SQ == 1 * Degree
LONG_SSQ == (5 * Degree) \div 60
LAT_SSQ == (25 * Degree) \div (10 * 60)
LONG_ESQ == (30 * Degree) \div (60 * 60)
LAT_ESQ == (15 * Degree) \div (60 * 60)
LONG_SESQ == (125 * Degree) \div (100 * 60 * 60)
LAT_SESQ == (625 * Degree) \div (1000 * 60 * 60)

LONG_MULT == <<LONG_F, LONG_SQ, LONG_SSQ, LONG_ESQ, LONG_SESQ>>
LAT_MULT == <<LAT_F, LAT_SQ, LAT_SSQ, LAT_ESQ, LAT_SESQ>>

(* ---------------- MHError and Result values (lib.rs 4-10) -------------- *)

InvalidGrid(grid) == [tag |-> "InvalidGrid", grid |-> grid]
InvalidGridLength(len) == [tag |-> "InvalidGridLength", len |-> len]
InvalidLongLat(long, lat) == [tag |-> "InvalidLongLat", long |-> long, lat |-> lat]
Unknown == [tag |-> "Unknown"]
OkLongLat(long, lat) == [tag |-> "Ok", long |-> long, lat |-> lat]
OkGrid(grid) == [tag |-> "Ok", grid |-> grid]

Pending == [tag |-> "Pending"]

(* ---------------- strings ---------------------------------------------- *)

\* char::len_utf8
Utf8Len(c) == IF c < 128 THEN 1 ELSE IF c < 2048 THEN 2 ELSE IF c < 65536 THEN 3 ELSE 4

RECURSIVE StrLen(_)
\* str::len(): the length in bytes
StrLen(s) == IF s = <<>> THEN 0 ELSE Utf8Len(Head(s)) + StrLen(Tail(s))

\* char::is_ascii_digit
is_digit(c) == c \in 48..57

\* char::is_ascii_alphabetic
is_alpha(c) == c \in 65..90 \/ c \in 97..122

\* char::to_ascii_uppercase
to_ascii_uppercase(c) == IF c \in 97..122 THEN c - 32 ELSE c

(* ---------------- grid_to_longlat (lib.rs 67-125) ---------------------- *)

pattern == <<"alpha", "alpha", "digit", "digit", "alpha", "alpha", "digit", "digit", "alpha", "alpha">>

check_fn(kind, c) == IF kind = "alpha" THEN is_alpha(c) ELSE is_digit(c)

\* grid.chars().zip(pattern).take(grid.len()).all(...): zip stops at the
\* shorter of the two, take at the byte length.
is_valid(grid) ==
    \A i \in 1..Min(Min(Len(grid), Len(pattern)), StrLen(grid)) : check_fn(pattern[i], grid[i])

\* "AA00AA00AA"
reference == <<65, 65, 48, 48, 65, 65, 48, 48, 65, 65>>

\* reference.chars().zip(grid.chars()).map(uppercase(grid_char) - ref_char)
grid_vals(grid) ==
    [i \in 1..Min(Len(reference), Len(grid)) |-> to_ascii_uppercase(grid[i]) - reference[i]]

RECURSIVE SumFrom(_, _, _, _)
\* vals.iter().skip(first - 1).step_by(2).zip(mult).map(v * m).sum(), from tier k on
SumFrom(vals, mult, first, k) ==
    LET i == first + 2 * (k - 1) IN
    IF i > Len(vals) \/ k > Len(mult) THEN 0
    ELSE vals[i] * mult[k] + SumFrom(vals, mult, first, k + 1)

\* Mutant: returns the south-west corner of the cell, not its centre.
decode_coords_corner(grid) ==
    LET vals == grid_vals(grid)
        long == SumFrom(vals, LONG_MULT, 1, 1)
        lat == SumFrom(vals, LAT_MULT, 2, 1)
    IN  OkLongLat(long - LONG_OFFSET, lat - LAT_OFFSET)

\* lib.rs 93-124, reached once both checks passed
decode_coords(grid) ==
    LET vals == grid_vals(grid)
        long == SumFrom(vals, LONG_MULT, 1, 1)
        lat == SumFrom(vals, LAT_MULT, 2, 1)
        idx == StrLen(grid) \div 2 - 1
        long2 == long + LONG_MULT[idx + 1] \div 2
        lat2 == lat + LAT_MULT[idx + 1] \div 2
    IN  OkLongLat(long2 - LONG_OFFSET, lat2 - LAT_OFFSET)

\* Mutant: the length check is made before the character-class check.
grid_to_longlat_len_first(grid) ==
    IF StrLen(grid) \notin {4, 6, 8, 10} THEN InvalidGridLength(StrLen(grid))
    ELSE IF ~is_valid(grid) THEN InvalidGrid(grid)
    ELSE decode_coords(grid)

grid_to_longlat(grid) ==
    IF ~is_valid(grid) THEN InvalidGrid(grid)
    ELSE IF StrLen(grid) \notin {4, 6, 8, 10} THEN InvalidGridLength(StrLen(grid))
    ELSE decode_coords(grid)

(* ---------------- longlat_to_grid (lib.rs 140-179) --------------------- *)

\* std::char::from_u32 fails on surrogates and above U+10FFFF
NoChar == 0 - 1

\* Mutant: offsets are taken as base-18 digits (char::from_digit style).
charoff_radix(base, off) == IF off < 18 THEN base + off ELSE NoChar

\* base as u32 + off stays far below 2^32 for every offset the model
\* computes, so the u32 addition does not wrap.
charoff(base, off) ==
    LET u == base + off IN
    IF u \in 55296..57343 \/ u > 1114111 THEN NoChar ELSE u

\* A quotient a / b of the f64 computation, kept exact as <<a, b>>.
\* `offset as u32`: truncation toward zero, negative values saturate to 0
\* (the upper saturation at 2^32 - 1 is beyond every quotient computed here).
as_u32(q) == IF q[1] <= 0 THEN 0 ELSE q[1] \div q[2]

\* f64 `%`: remainder with the sign of the dividend
fmod(a, b) == IF a >= 0 THEN a % b ELSE 0 - ((0 - a) % b)

\* lib.rs 157-167
all_vals(adj_long, adj_lat) ==
    << <<adj_long, LONG_F>>,
       <<adj_lat, LAT_F>>,
       <<fmod(adj_long, LONG_F), LONG_SQ>>,
       <<fmod(adj_lat, LAT_F), LAT_SQ>>,
       <<fmod(adj_long, LONG_SQ), LONG_SSQ>>,
       <<fmod(adj_lat, LAT_SQ), LAT_SSQ>>,
       <<fmod(adj_long, LONG_SSQ), LONG_ESQ>>,
       <<fmod(adj_lat, LAT_SSQ), LAT_ESQ>>,
       <<fmod(adj_long, LONG_ESQ), LONG_SESQ>>,
       <<fmod(adj_lat, LAT_ESQ), LAT_SESQ>> >>

\* Mutant: off by one, keeps one value less.
truncate_short(vals, n) == SubSeq(vals, 1, Min(Len(vals), n) - 1)

\* Vec::truncate
truncate(vals, n) == SubSeq(vals, 1, Min(Len(vals), n))

\* "AA00aa00AA"
base_chars == <<65, 65, 48, 48, 97, 97, 48, 48, 65, 65>>

\* lib.rs 153-178, reached once both checks passed
encode_chars(long, lat, precision) ==
    LET adj_long == long + LONG_OFFSET
        adj_lat == lat + LAT_OFFSET
        vals == truncate(all_vals(adj_long, adj_lat), precision)
        grid == [i \in 1..Min(Len(base_chars), Len(vals)) |-> charoff(base_chars[i], as_u32(vals[i]))]
    IN  IF \E i \in 1..Len(grid) : grid[i] = NoChar THEN Unknown ELSE OkGrid(grid)

\* Mutant: the coordinate check is made before the precision check.
longlat_to_grid_range_first(long, lat, precision) ==
    IF ~(long \in (0 - 180 * Degree)..(180 * Degree)) \/ ~(lat \in (0 - 90 * Degree)..(90 * Degree))
    THEN InvalidLongLat(long, lat)
    ELSE IF precision \notin {4, 6, 8, 10} THEN InvalidGridLength(precision)
    ELSE encode_chars(long, lat, precision)

longlat_to_grid(long, lat, precision) ==
    IF precision \notin {4, 6, 8, 10} THEN InvalidGridLength(precision)
    ELSE IF ~(long \in (0 - 180 * Degree)..(180 * Degree)) \/ ~(lat \in (0 - 90 * Degree)..(90 * Degree))
    THEN InvalidLongLat(long, lat)
    ELSE encode_chars(long, lat, precision)

(* ---------------- geodesy (lib.rs 202-254) ----------------------------- *)

\* f64::sin returns 0.0 only at 0.0: no other f64 is a multiple of pi.
sin_is_zero(x) == x = 0

\* f64::cos never returns 0.0: no f64 is an odd multiple of pi/2.
cos_is_zero(x) == FALSE

\* Mutant: the longitudes are added where they should be subtracted.
haversine_dist_sum(from_long, from_lat, to_long, to_lat) ==
    LET dl == to_long + from_long
        dp == to_lat - from_lat
        a_is_zero == sin_is_zero(dp) /\ (cos_is_zero(from_lat) \/ cos_is_zero(to_lat) \/ sin_is_zero(dl))
    IN  IF a_is_zero THEN "0.0" ELSE "positive"

\* lib.rs 208-217.  a is a sum of two non-negative terms and is 0.0 only
\* when both are; c = 2 atan2(sqrt a, sqrt (1 - a)) is 0.0 only when a is;
\* dist = RADIUS * c.  The value is "0.0" or "positive".
haversine_dist(from_long, from_lat, to_long, to_lat) ==
    LET dl == to_long - from_long
        dp == to_lat - from_lat
        a_is_zero == sin_is_zero(dp) /\ (cos_is_zero(from_lat) \/ cos_is_zero(to_lat) \/ sin_is_zero(dl))
    IN  IF a_is_zero THEN "0.0" ELSE "positive"

\* lib.rs 218-219: the bearing formula applied to (dl, phi1, phi2), left uninterpreted
bearing_of(from_long, from_lat, to_long, to_lat) == <<to_long - from_long, from_lat, to_lat>>

\* Mutant: `to` is decoded before `from`.
grid_dist_bearing_to_first(from, to) ==
    LET t == grid_to_longlat(to) IN
    IF t.tag # "Ok" THEN t
    ELSE LET f == grid_to_longlat(from) IN
         IF f.tag # "Ok" THEN f
         ELSE [tag |-> "Ok",
               dist |-> haversine_dist(f.long, f.lat, t.long, t.lat),
               bearing |-> bearing_of(f.long, f.lat, t.long, t.lat)]

grid_dist_bearing(from, to) ==
    LET f == grid_to_longlat(from) IN
    IF f.tag # "Ok" THEN f
    ELSE LET t == grid_to_longlat(to) IN
         IF t.tag # "Ok" THEN t
         ELSE [tag |-> "Ok",
               dist |-> haversine_dist(f.long, f.lat, t.long, t.lat),
               bearing |-> bearing_of(f.long, f.lat, t.long, t.lat)]

grid_distance(from, to) ==
    LET r == grid_dist_bearing(from, to) IN
    IF r.tag # "Ok" THEN r ELSE [tag |-> "Ok", dist |-> r.dist]

grid_bearing(from, to) ==
    LET r == grid_dist_bearing(from, to) IN
    IF r.tag # "Ok" THEN r ELSE [tag |-> "Ok", bearing |-> r.bearing]

(* ---------------- inputs ----------------------------------------------- *)

\* Longest locator string tried, in characters.
MaxLen == 11

\* Largest precision tried.
MaxPrecision == 11

\* Largest offset of a point inside its finest cell, in quarters of the
\* finest latitude width (twice that in longitude).
MaxRem == 3

\* The characters tried at position i (1-based): in-range and out-of-range
\* letters of both cases, digits, characters of the wrong class and
\* non-ASCII characters.
Alphabet(i) ==
    CASE i = 1 -> {65, 82, 83, 49}       \* A R S 1
      [] i = 2 -> {65, 114, 122}         \* A r z
      [] i = 3 -> {48, 57, 65}           \* 0 9 A
      [] i = 4 -> {48, 57}               \* 0 9
      [] i = 5 -> {97, 88, 121}          \* a X y
      [] i = 6 -> {97, 120, 233}         \* a x U+00E9
      [] i = 7 -> {48, 57}               \* 0 9
      [] i = 8 -> {57, 129335}           \* 9 U+1F937
      [] i = 9 -> {65, 120}              \* A x
      [] i = 10 -> {97, 88}              \* a X
      [] OTHER -> {65, 233}              \* A U+00E9

RECURSIVE Strings(_)
Strings(n) ==
    IF n = 0 THEN {<<>>}
    ELSE {Append(s, c) : s \in Strings(n - 1), c \in Alphabet(n)}

GridInputs == UNION {Strings(n) : n \in 0..MaxLen}

\* Locators for the two-argument functions: FM18lv53SL, FM18, CM87um,
\* KP04ow, ZZ99, AA00AA00AA, AIA2, AI021, the empty string, AA00AA00AA00
\* and a locator that starts with U+1F937.
GeoInputs ==
    { <<70, 77, 49, 56, 108, 118, 53, 51, 83, 76>>,
      <<70, 77, 49, 56>>,
      <<67, 77, 56, 55, 117, 109>>,
      <<75, 80, 48, 52, 111, 119>>,
      <<90, 90, 57, 57>>,
      <<65, 65, 48, 48, 65, 65, 48, 48, 65, 65>>,
      <<65, 73, 65, 50>>,
      <<65, 73, 48, 50, 49>>,
      <<>>,
      <<65, 65, 48, 48, 65, 65, 48, 48, 65, 65, 48, 48>>,
      <<129335, 73, 48, 48>> }

\* Digits of the cells tried, one per tier (the same for both axes):
\* the first cell, the last cell, FM18lv53SL's longitude and latitude
\* digits, and two mixed ones.
CellDigits ==
    { <<0, 0, 0, 0, 0>>, <<17, 9, 23, 9, 23>>, <<5, 1, 11, 5, 18>>,
      <<12, 8, 21, 3, 11>>, <<17, 9, 0, 0, 0>>, <<0, 0, 23, 9, 23>> }

RECURSIVE Dot(_, _, _)
Dot(d, mult, k) == IF k > Len(d) THEN 0 ELSE d[k] * mult[k] + Dot(d, mult, k + 1)

\* Longitudes: points of the cells above, both ends of the range, and
\* values outside it (one unit off either end, -201 and 921 degrees).
LongInputs ==
    {Dot(d, LONG_MULT, 1) + 2 * r - LONG_OFFSET : d \in CellDigits, r \in 0..MaxRem}
    \cup {LONG_OFFSET, LONG_OFFSET + 1, 0 - LONG_OFFSET - 1, 0 - 201 * Degree, 921 * Degree}

LatInputs ==
    {Dot(d, LAT_MULT, 1) + r - LAT_OFFSET : d \in CellDigits, r \in 0..MaxRem}
    \cup {LAT_OFFSET, LAT_OFFSET + 1, 0 - LAT_OFFSET - 1, 0 - 201 * Degree, 921 * Degree}

PrecisionInputs == 0..MaxPrecision

(* ---------------- state machine ---------------------------------------- *)

Init ==
    /\ pc = "call"
    /\ result = Pending
    /\ \/ call \in {[op |-> "grid_to_longlat", grid |-> g] : g \in GridInputs}
       \/ call \in {[op |-> "longlat_to_grid", long |-> x, lat |-> y, precision |-> p] :
                        x \in LongInputs, y \in LatInputs, p \in PrecisionInputs}
       \/ call \in {[op |-> o, from |-> f, to |-> t] :
                        o \in {"grid_dist_bearing", "grid_distance", "grid_bearing"},
                        f \in GeoInputs, t \in GeoInputs}

GridToLonglat ==
    /\ pc = "call"
    /\ call.op = "grid_to_longlat"
    /\ result' = grid_to_longlat(call.grid)
    /\ pc' = "done"
    /\ UNCHANGED call

LonglatToGrid ==
    /\ pc = "call"
    /\ call.op = "longlat_to_grid"
    /\ result' = longlat_to_grid(call.long, call.lat, call.precision)
    /\ pc' = "done"
    /\ UNCHANGED call

GridDistBearing ==
    /\ pc = "call"
    /\ call.op = "grid_dist_bearing"
    /\ result' = grid_dist_bearing(call.from, call.to)
    /\ pc' = "done"
    /\ UNCHANGED call

GridDistance ==
    /\ pc = "call"
    /\ call.op = "grid_distance"
    /\ result' = grid_distance(call.from, call.to)
    /\ pc' = "done"
    /\ UNCHANGED call

GridBearing ==
    /\ pc = "call"
    /\ call.op = "grid_bearing"
    /\ result' = grid_bearing(call.from, call.to)
    /\ pc' = "done"
    /\ UNCHANGED call

Next == GridToLonglat \/ LonglatToGrid \/ GridDistBearing \/ GridDistance \/ GridBearing

Spec == Init /\ [][Next]_vars

Returned(op) == pc = "done" /\ call.op = op

(* ---------------- vocabulary of the properties ------------------------- *)

ValidPrecision(n) == n \in {4, 6, 8, 10}

InRange(long, lat) ==
    /\ 0 - 180 * Degree <= long /\ long <= 180 * Degree
    /\ 0 - 90 * Degree <= lat /\ lat <= 90 * Degree

Abs(x) == IF x < 0 THEN 0 - x ELSE x

Letter(c) == (65 <= c /\ c <= 90) \/ (97 <= c /\ c <= 122)

Digit(c) == 48 <= c /\ c <= 57

\* Case normalisation of a locator.
Upper(s) == [i \in 1..Len(s) |-> IF 97 <= s[i] /\ s[i] <= 122 THEN s[i] - 32 ELSE s[i]]

\* The character c at position i (1-based) fails its positional class.
ClassFails(i, c) ==
    \/ c > 127
    \/ i \in {1, 2, 5, 6, 9, 10} /\ ~Letter(c)
    \/ i \in {3, 4, 7, 8} /\ ~Digit(c)

\* The encoder was called with in-range coordinates and a valid precision.
EncodedInRange ==
    /\ Returned("longlat_to_grid")
    /\ ValidPrecision(call.precision)
    /\ InRange(call.long, call.lat)

Geodesy == {"grid_dist_bearing", "grid_distance", "grid_bearing"}

(* ---------------- C1 ---------------------------------------------------- *)

\* C1: every string s that grid_to_longlat accepts round-trips: with
\* (long, lat) = grid_to_longlat(s), longlat_to_grid(long, lat, length of s)
\* succeeds and returns s, compared case-insensitively.
C1_RoundTrip ==
    (Returned("grid_to_longlat") /\ result.tag = "Ok") =>
        LET back == longlat_to_grid(result.long, result.lat, Len(call.grid)) IN
        /\ back.tag = "Ok"
        /\ Upper(back.grid) = Upper(call.grid)

(* ---------------- C2 ---------------------------------------------------- *)

\* C2: for in-range coordinates and n in {4,6,8,10}, longlat_to_grid(long,
\* lat, n) is the first n characters of longlat_to_grid(long, lat, 10).
C2_PrecisionTruncation ==
    EncodedInRange =>
        LET full == longlat_to_grid(call.long, call.lat, 10) IN
        /\ full.tag = "Ok"
        /\ result.tag = "Ok"
        /\ Len(full.grid) = 10
        /\ Len(result.grid) = call.precision
        /\ \A i \in 1..call.precision : result.grid[i] = full.grid[i]

\* A 6-character locator was produced whose 10-character form is longer
\* and differs from the base characters beyond position 6.
C2_Witness ==
    /\ EncodedInRange
    /\ call.precision = 6
    /\ result.tag = "Ok"
    /\ LET full == longlat_to_grid(call.long, call.lat, 10) IN
       /\ full.tag = "Ok"
       /\ Len(full.grid) = 10
       /\ full.grid[7] # 48
       /\ full.grid[9] # 65

(* ---------------- C3 ---------------------------------------------------- *)

\* C3: longlat_to_grid returns InvalidGridLength(p) whenever p is not one
\* of 4/6/8/10, whatever the coordinates; for p in 4/6/8/10 and
\* coordinates out of range it returns InvalidLongLat(long, lat) with the
\* two inputs unchanged.
C3_EncoderErrors ==
    Returned("longlat_to_grid") =>
        /\ ~ValidPrecision(call.precision) =>
              /\ result.tag = "InvalidGridLength"
              /\ result.len = call.precision
        /\ (ValidPrecision(call.precision) /\ ~InRange(call.long, call.lat)) =>
              /\ result.tag = "InvalidLongLat"
              /\ result.long = call.long
              /\ result.lat = call.lat

\* Precision 5 with a longitude of -201 degrees: the precision error wins.
C3_Witness ==
    /\ Returned("longlat_to_grid")
    /\ call.precision = 5
    /\ call.long = 0 - 201 * Degree
    /\ result.tag = "InvalidGridLength"
    /\ result.len = 5

(* ---------------- C4 ---------------------------------------------------- *)

\* C4 as stated: grid_to_longlat(s) returns InvalidGrid(s) when any
\* character of s fails its positional class (any non-ASCII character
\* fails), whatever the length; InvalidGridLength(len) when every character
\* passes and the length is not 4, 6, 8 or 10; and succeeds otherwise.
C4_DecoderErrorsEveryChar ==
    Returned("grid_to_longlat") =>
        LET s == call.grid IN
        IF \E i \in 1..Len(s) : ClassFails(i, s[i])
        THEN result.tag = "InvalidGrid" /\ result.grid = s
        ELSE IF Len(s) \notin {4, 6, 8, 10}
        THEN result.tag = "InvalidGridLength" /\ result.len = Len(s)
        ELSE result.tag = "Ok"

\* C4 amended: grid_to_longlat(s) returns InvalidGrid(s) when any of the
\* first ten characters of s fails its positional class (a non-ASCII
\* character among them fails), whatever the length; characters after the
\* tenth are not examined; it returns InvalidGridLength(len), len the
\* length of s in bytes, when the first ten characters pass and len is not
\* 4, 6, 8 or 10; and succeeds otherwise.
C4_DecoderErrorsFirstTen ==
    Returned("grid_to_longlat") =>
        LET s == call.grid
            bytes == StrLen(s)
        IN
        IF \E i \in 1..Min(Len(s), 10) : ClassFails(i, s[i])
        THEN result.tag = "InvalidGrid" /\ result.grid = s
        ELSE IF bytes \notin {4, 6, 8, 10}
        THEN result.tag = "InvalidGridLength" /\ result.len = bytes
        ELSE result.tag = "Ok"

\* An 11-character string whose only failing character is a two-byte one
\* at the eleventh position was rejected for its length of 12 bytes.
C4_Witness ==
    /\ Returned("grid_to_longlat")
    /\ Len(call.grid) = 11
    /\ call.grid[11] > 127
    /\ result.tag = "InvalidGridLength"
    /\ result.len = 12

(* ---------------- C5 ---------------------------------------------------- *)

\* C5: grid_dist_bearing, grid_distance and grid_bearing fail exactly when
\* grid_to_longlat fails on from or on to; the error is the one
\* grid_to_longlat(from) gives when from is invalid, otherwise the one
\* grid_to_longlat(to) gives, unchanged; two valid locators succeed.
C5_GeodesyErrors ==
    (pc = "done" /\ call.op \in Geodesy) =>
        LET f == grid_to_longlat(call.from)
            t == grid_to_longlat(call.to)
        IN
        IF f.tag # "Ok" THEN result = f
        ELSE IF t.tag # "Ok" THEN result = t
        ELSE result.tag = "Ok"

\* Both locators are invalid, with different errors, and from's came back.
C5_Witness ==
    /\ pc = "done"
    /\ call.op \in Geodesy
    /\ grid_to_longlat(call.from).tag = "InvalidGrid"
    /\ grid_to_longlat(call.to).tag = "InvalidGridLength"
    /\ result.tag = "InvalidGrid"
    /\ result.grid = call.from

(* ---------------- C6 ---------------------------------------------------- *)

\* C6: for every locator g that grid_to_longlat accepts, grid_distance(g, g)
\* succeeds and returns exactly 0.0.
C6_NullDistance ==
    (Returned("grid_distance") /\ call.from = call.to
        /\ grid_to_longlat(call.from).tag = "Ok") =>
            /\ result.tag = "Ok"
            /\ result.dist = "0.0"

\* grid_distance of a 10-character locator away from the prime meridian
\* to itself returned 0.0.
C6_Witness ==
    /\ Returned("grid_distance")
    /\ call.from = call.to
    /\ Len(call.from) = 10
    /\ grid_to_longlat(call.from).tag = "Ok"
    /\ grid_to_longlat(call.from).long # 0
    /\ result.tag = "Ok"
    /\ result.dist = "0.0"

(* ---------------- C7 ---------------------------------------------------- *)

\* C7: for in-range coordinates and precision n in {4,6,8,10} the encoder
\* returns n characters: A-R at positions 0,1; 0-9 at 2,3,6,7; a-x at 4,5;
\* A-X at 8,9.
C7_EncoderWellFormed ==
    EncodedInRange =>
        /\ result.tag = "Ok"
        /\ Len(result.grid) = call.precision
        /\ \A i \in 1..Len(result.grid) :
              LET c == result.grid[i] IN
              /\ i \in {1, 2} => (65 <= c /\ c <= 82)
              /\ i \in {3, 4, 7, 8} => (48 <= c /\ c <= 57)
              /\ i \in {5, 6} => (97 <= c /\ c <= 120)
              /\ i \in {9, 10} => (65 <= c /\ c <= 88)

(* ---------------- C8 ---------------------------------------------------- *)

\* C8: every pair grid_to_longlat returns has its longitude in [-180, 180]
\* and its latitude in [-90, 90].
C8_DecodedInRange ==
    (Returned("grid_to_longlat") /\ result.tag = "Ok") =>
        InRange(result.long, result.lat)

(* ---------------- C9 ---------------------------------------------------- *)

\* C9: for in-range coordinates and a precision in {4,6,8,10}
\* longlat_to_grid returns Ok, never Unknown: every digit is a non-negative
\* offset that gives a valid character.
C9_NoUnknown ==
    EncodedInRange =>
        /\ result.tag = "Ok"
        /\ \A i \in 1..call.precision :
              LET q == all_vals(call.long + LONG_OFFSET, call.lat + LAT_OFFSET)[i] IN
              /\ q[1] >= 0
              /\ result.grid[i] = base_chars[i] + q[1] \div q[2]

\* The largest digits were encoded: the upper end of both ranges at
\* precision 10, and the last cell below it.
C9_Witness ==
    /\ EncodedInRange
    /\ call.precision = 10
    /\ call.long = 180 * Degree
    /\ call.lat = 90 * Degree
    /\ result.tag = "Ok"

(* ---------------- C10 --------------------------------------------------- *)

\* C10: for in-range (x, y) and n in {4,6,8,10}, decoding
\* longlat_to_grid(x, y, n) succeeds and gives (x', y') with
\* |x' - x| <= half the longitude width and |y' - y| <= half the latitude
\* width of tier n/2.
C10_CellContainsPoint ==
    EncodedInRange =>
        /\ result.tag = "Ok"
        /\ LET d == grid_to_longlat(result.grid)
               tier == call.precision \div 2
           IN
           /\ d.tag = "Ok"
           /\ 2 * Abs(d.long - call.long) <= LONG_MULT[tier]
           /\ 2 * Abs(d.lat - call.lat) <= LAT_MULT[tier]

\* A point on the edge of its finest cell in longitude and strictly inside
\* it in latitude was encoded at precision 10 and decoded to the centre.
C10_Witness ==
    /\ EncodedInRange
    /\ call.precision = 10
    /\ result.tag = "Ok"
    /\ LET d == grid_to_longlat(result.grid) IN
       /\ d.tag = "Ok"
       /\ 2 * Abs(d.long - call.long) = LONG_SESQ
       /\ d.lat # call.lat
       /\ 2 * Abs(d.lat - call.lat) < LAT_SESQ

====
